---- MODULE Spec2Model ----
(***************************************************************************)
(* Paper Trading Session Engine: services/paper_trading_service.py behind  *)
(* routers/paper_trading.py, over the tables of models/paper_trade.py.     *)
(*                                                                         *)
(* Prices, quantities and balances are Python floats in the source; they   *)
(* are modelled as exact integers, and roi_percentage as the exact         *)
(* fraction <<numerator, denominator>>, so float rounding is not modelled. *)
(* A NULL column is <<>>, a stored number x of a nullable column is <<x>>. *)
(***************************************************************************)
EXTENDS Integers, Sequences, FiniteSets, TLC

\* ------------------------------------------------------------------ bounds
MaxSessions == 2
MaxTrades == 2
NumWorkers == 2

\* ------------------------------------------------------- the input values
\* what the requests carry; with the quantity 2 the entry price 3 is over the
\* position size 4, and two BUY trades can use up the balance 6
EntryPrices == {1, 2, 3}
ExitPrices == {1, 2}
Quantities == {2}
\* a session request carries values on both sides of each constraint
InitialBalances == {0, 6}
MaxPositionSizes == {0, 4}
RiskPercentages == {0, 100, 101}
Names == {"session"}
\* the advisory levels of a trade request: with the oracle's price 2 the
\* take_profit of a BUY and the stop_loss of a SELL are crossed
StopLosses == {<<1>>}
TakeProfits == {<<2>>}
StrategyConfigs == {[type |-> "momentum", parameters |-> <<>>]}

\* --------------------------------------------------------------- constants
BUY == "buy"
SELL == "sell"
OPEN == "open"
CLOSED == "closed"
CANCELLED == "cancelled"

TradeSide == {BUY, SELL}
TradeStatus == {OPEN, CLOSED, CANCELLED}

\* the symbols of the requests; a session trades the first one, or none
Symbols == {"BTCUSDT", "ETHUSDT"}
TradingPairChoices == {{}, {"BTCUSDT"}}

None == <<>>
Some(x) == <<x>>

\* the oracle answers a lookup with a price > 0, or raises (0)
PriceUnavailable == 0
OracleAnswers == {PriceUnavailable, 2}

\* ----------------------------------------------------------------- state
\* the two tables of the store; a row's id is its index
VARIABLES sessions, trades

\* the requests in flight when the handlers run concurrently, each on its
\* own database session: where the worker is, and the rows it has loaded
VARIABLES pc, loc

\* the reading of the clock, datetime.utcnow(), in hours. No step of the
\* specifications below advances it: their requests fall within one reading
VARIABLE now

vars == <<sessions, trades, pc, loc, now>>

Workers == 1..NumWorkers
Idle == [op |-> "idle"]

\* ------------------------------------------------------- pure computations
trade_value(price, quantity) == price * quantity

exceeds_max_position(tv, session) == tv > session.max_position_size

insufficient_balance_initial(side, tv, session) ==
    side = BUY /\ tv > session.initial_balance

insufficient_balance(side, tv, session) ==
    side = BUY /\ tv > session.current_balance

balance_after_open(side, balance, tv) ==
    IF side = BUY THEN balance - tv ELSE balance

pnl_same_for_both_sides(side, entry_value, exit_value) ==
    exit_value - entry_value

pnl(side, entry_value, exit_value) ==
    IF side = BUY THEN exit_value - entry_value ELSE entry_value - exit_value

roi(side, entry_value, exit_value) ==
    <<pnl(side, entry_value, exit_value) * 100, entry_value>>

close_credit_exit_value(side, exit_value, entry_value) == exit_value

close_credit(side, exit_value, entry_value) ==
    IF side = BUY THEN exit_value ELSE entry_value

\* ------------------------------------------------------------ the records
PaperTradingSession_spent(data) ==
    [name |-> data.name,
     strategy_config |-> data.strategy_config,
     trading_pairs |-> data.trading_pairs,
     risk_percentage |-> data.risk_percentage,
     initial_balance |-> data.initial_balance,
     current_balance |-> 0,
     max_position_size |-> data.max_position_size,
     total_pnl |-> 0,
     active |-> TRUE]

PaperTradingSession(data) ==
    [name |-> data.name,
     strategy_config |-> data.strategy_config,
     trading_pairs |-> data.trading_pairs,
     risk_percentage |-> data.risk_percentage,
     initial_balance |-> data.initial_balance,
     current_balance |-> data.initial_balance,
     max_position_size |-> data.max_position_size,
     total_pnl |-> 0,
     active |-> TRUE]

PaperTrade_created_closed(req) ==
    [session_id |-> req.session_id, symbol |-> req.symbol,
     entry_price |-> req.entry_price, quantity |-> req.quantity,
     side |-> req.side, status |-> CLOSED, exit_price |-> None,
     stop_loss |-> req.stop_loss, take_profit |-> req.take_profit,
     entry_time |-> now, exit_time |-> None,
     realized_pnl |-> None, unrealized_pnl |-> None, roi_percentage |-> None]

PaperTrade(req) ==
    [session_id |-> req.session_id, symbol |-> req.symbol,
     entry_price |-> req.entry_price, quantity |-> req.quantity,
     side |-> req.side, status |-> OPEN, exit_price |-> None,
     stop_loss |-> req.stop_loss, take_profit |-> req.take_profit,
     entry_time |-> now, exit_time |-> None,
     realized_pnl |-> None, unrealized_pnl |-> None, roi_percentage |-> None]

\* the ids a request can name: those of the rows, and one of no row
SessionIds == 1..(MaxSessions + 1)
TradeIds == 1..(MaxTrades + 1)

SessionCreates ==
    [name : Names, strategy_config : StrategyConfigs,
     trading_pairs : TradingPairChoices,
     risk_percentage : RiskPercentages,
     initial_balance : InitialBalances,
     max_position_size : MaxPositionSizes]

\* the constraints of the request body, checked before the handler runs
PaperTradingSessionCreate(data) ==
    /\ data.risk_percentage > 0 /\ data.risk_percentage <= 100
    /\ data.initial_balance > 0
    /\ data.max_position_size > 0

TradeCreates ==
    [session_id : SessionIds, symbol : Symbols,
     entry_price : EntryPrices, quantity : Quantities, side : TradeSide,
     stop_loss : StopLosses, take_profit : TakeProfits]

\* the answer of a handler: the HTTP status and the detail of the error
Response(code, detail) == [code |-> code, detail |-> detail]

Init ==
    /\ sessions = <<>>
    /\ trades = <<>>
    /\ pc = [p \in Workers |-> "idle"]
    /\ loc = [p \in Workers |-> Idle]
    /\ now = 0

get_session(ss, session_id) ==
    IF session_id \in DOMAIN ss THEN Some(ss[session_id]) ELSE None

\* ---------------------------------------------------------- create_session
create_session_service(ss, data) == Append(ss, PaperTradingSession(data))

\* a body that fails its constraints is answered 422 and the handler is not
\* called; the session returned is the row as stored
create_session_handler(ss, data) ==
    IF ~PaperTradingSessionCreate(data)
    THEN [response |-> Response(422, "value_error"), session |-> None,
          sessions |-> ss]
    ELSE [response |-> Response(201, ""),
          session |-> Some(PaperTradingSession(data)),
          sessions |-> create_session_service(ss, data)]

create_session(data) ==
    /\ Len(sessions) < MaxSessions
    /\ sessions' = create_session_handler(sessions, data).sessions
    /\ UNCHANGED <<trades, pc, loc, now>>

\* ------------------------------------------------------------ create_trade
\* the checks of the service, on the session row as the request read it:
\* the message of the ValueError raised, "" when the trade is admitted
create_trade_validate(session, req) ==
    IF session = None THEN "Session not found"
    ELSE IF req.symbol \notin session[1].trading_pairs
         THEN "Trading pair not allowed in this session"
    ELSE IF exceeds_max_position(
                trade_value(req.entry_price, req.quantity), session[1])
         THEN "Trade value exceeds max position size"
    ELSE IF insufficient_balance(
                req.side, trade_value(req.entry_price, req.quantity),
                session[1])
         THEN "Insufficient balance for trade"
    ELSE ""

create_trade_flush_session_any_side(ss, read, req) ==
    [ss EXCEPT ![req.session_id].current_balance =
        read.current_balance - trade_value(req.entry_price, req.quantity)]

\* the flush of the commit: the UPDATE writes the balance computed from the
\* row as it was read, and only for a BUY
create_trade_flush_session(ss, read, req) ==
    IF req.side = BUY
    THEN [ss EXCEPT ![req.session_id].current_balance =
            balance_after_open(req.side, read.current_balance,
                               trade_value(req.entry_price, req.quantity))]
    ELSE ss

create_trade_service_commit_before_checks(ss, ts, req) ==
    LET session == get_session(ss, req.session_id)
        detail == create_trade_validate(session, req)
    IN  IF session = None \/ req.symbol \notin session[1].trading_pairs
        THEN [detail |-> detail, sessions |-> ss, trades |-> ts]
        ELSE [detail |-> detail,
              sessions |-> create_trade_flush_session(ss, session[1], req),
              trades |-> Append(ts, PaperTrade(req))]

create_trade_service(ss, ts, req) ==
    LET session == get_session(ss, req.session_id)
        detail == create_trade_validate(session, req)
    IN  IF detail # ""
        THEN [detail |-> detail, sessions |-> ss, trades |-> ts]
        ELSE [detail |-> "",
              sessions |-> create_trade_flush_session(ss, session[1], req),
              trades |-> Append(ts, PaperTrade(req))]

\* the handler: what it leaves in the store, and what it answers. The
\* HTTPException(400) of a path that names another session than the body is
\* raised inside the try and caught by `except Exception`, which answers 500
\* with str() of the exception as detail.
create_trade_handler(ss, ts, session_id, req) ==
    IF req.session_id # session_id
    THEN [response |-> Response(500, "400: Session ID mismatch"),
          sessions |-> ss, trades |-> ts]
    ELSE LET r == create_trade_service(ss, ts, req)
         IN  [response |-> IF r.detail # "" THEN Response(400, r.detail)
                           ELSE Response(200, ""),
              sessions |-> r.sessions, trades |-> r.trades]

create_trade_handler_commit_failed_after_insert(ss, ts, session_id, req) ==
    LET r == create_trade_handler(ss, ts, session_id, req)
    IN  IF r.response.code # 200 THEN r
        ELSE [response |-> Response(500, "OperationalError"),
              sessions |-> ss, trades |-> r.trades]

\* the handler when db.commit() raises: the INSERT of the trade and the
\* UPDATE of the balance are pending in the one transaction of the request,
\* which is rolled back; `except Exception` answers 500. The checks before
\* the commit answer as they do otherwise.
create_trade_handler_commit_failed(ss, ts, session_id, req) ==
    LET r == create_trade_handler(ss, ts, session_id, req)
    IN  IF r.response.code # 200 THEN r
        ELSE [response |-> Response(500, "OperationalError"),
              sessions |-> ss, trades |-> ts]

\* db.commit() succeeds or raises
create_trade(session_id, req) ==
    /\ Len(trades) < MaxTrades
    /\ \E committed \in BOOLEAN :
        LET r == IF committed
                 THEN create_trade_handler(sessions, trades, session_id, req)
                 ELSE create_trade_handler_commit_failed(
                            sessions, trades, session_id, req)
        IN  /\ sessions' = r.sessions
            /\ trades' = r.trades
    /\ UNCHANGED <<pc, loc, now>>

\* ------------------------------------------------------------- close_trade
close_trade_found(ts, trade_id) ==
    trade_id \in DOMAIN ts /\ ts[trade_id].status = OPEN

closed_trade(trade, exit_price) ==
    [trade EXCEPT
        !.exit_price = Some(exit_price),
        !.exit_time = Some(now),
        !.status = CLOSED,
        !.realized_pnl =
            Some(pnl(trade.side, trade.quantity * trade.entry_price,
                     trade.quantity * exit_price)),
        !.roi_percentage =
            roi(trade.side, trade.quantity * trade.entry_price,
                trade.quantity * exit_price)]

close_trade_service_balance_only(ss, ts, trade_id, exit_price) ==
    IF ~close_trade_found(ts, trade_id)
    THEN [trade |-> None, sessions |-> ss, trades |-> ts]
    ELSE LET trade == closed_trade(ts[trade_id], exit_price)
         IN  [trade |-> Some(trade),
              sessions |->
                [ss EXCEPT
                    ![trade.session_id].current_balance =
                        @ + close_credit(trade.side,
                                         trade.quantity * exit_price,
                                         trade.quantity * trade.entry_price)],
              trades |-> [ts EXCEPT ![trade_id] = trade]]

close_trade_service(ss, ts, trade_id, exit_price) ==
    IF ~close_trade_found(ts, trade_id)
    THEN [trade |-> None, sessions |-> ss, trades |-> ts]
    ELSE LET trade == closed_trade(ts[trade_id], exit_price)
         IN  [trade |-> Some(trade),
              sessions |->
                [ss EXCEPT
                    ![trade.session_id].current_balance =
                        @ + close_credit(trade.side,
                                         trade.quantity * exit_price,
                                         trade.quantity * trade.entry_price),
                    ![trade.session_id].total_pnl =
                        @ + trade.realized_pnl[1]],
              trades |-> [ts EXCEPT ![trade_id] = trade]]

close_trade_handler(ss, ts, session_id, trade_id, exit_price) ==
    LET r == close_trade_service(ss, ts, trade_id, exit_price)
    IN  [response |->
            IF r.trade = None
            THEN Response(404, "Trade not found or already closed")
            ELSE IF r.trade[1].session_id # session_id
            THEN Response(400, "Trade does not belong to this session")
            ELSE Response(200, ""),
         sessions |-> r.sessions, trades |-> r.trades]

close_trade(session_id, trade_id, exit_price) ==
    LET r == close_trade_handler(sessions, trades, session_id, trade_id,
                                 exit_price)
    IN  /\ sessions' = r.sessions
        /\ trades' = r.trades
        /\ UNCHANGED <<pc, loc, now>>

\* ---------------------------------------------------- update_unrealized_pnl
refreshed_trade_closing_at_take_profit(trade, current_price) ==
    [trade EXCEPT
        !.unrealized_pnl =
            Some(pnl(trade.side, trade.quantity * trade.entry_price,
                     trade.quantity * current_price)),
        !.roi_percentage =
            roi(trade.side, trade.quantity * trade.entry_price,
                trade.quantity * current_price),
        !.status =
            IF trade.take_profit # None /\ trade.side = BUY
               /\ current_price >= trade.take_profit[1]
            THEN CLOSED ELSE trade.status]

refreshed_trade(trade, current_price) ==
    [trade EXCEPT
        !.unrealized_pnl =
            Some(pnl(trade.side, trade.quantity * trade.entry_price,
                     trade.quantity * current_price)),
        !.roi_percentage =
            roi(trade.side, trade.quantity * trade.entry_price,
                trade.quantity * current_price)]

\* the query of the OPEN trades of the session: their ids, in id order
open_trades(ts, session_id) ==
    SelectSeq([i \in 1..Len(ts) |-> i],
              LAMBDA i : ts[i].session_id = session_id /\ ts[i].status = OPEN)

\* the loop over the OPEN trades; prices[k] is the answer of the oracle to
\* the k-th lookup. A lookup that raises leaves the loop at once.
RECURSIVE update_loop(_, _, _, _)
update_loop(mem, ids, k, prices) ==
    IF k > Len(ids) THEN [raised |-> FALSE, trades |-> mem]
    ELSE IF prices[k] = PriceUnavailable
    THEN [raised |-> TRUE, trades |-> mem]
    ELSE update_loop(
            [mem EXCEPT ![ids[k]] = refreshed_trade(mem[ids[k]], prices[k])],
            ids, k + 1, prices)

\* the exception leaves before db.commit(): nothing of the loop is persisted
update_unrealized_pnl(ts, session_id, prices) ==
    LET r == update_loop(ts, open_trades(ts, session_id), 1, prices)
    IN  [raised |-> r.raised, trades |-> IF r.raised THEN ts ELSE r.trades]

\* the answers of the oracle to the lookups of one refresh
Lookups(ts, session_id) ==
    [1..Len(open_trades(ts, session_id)) -> OracleAnswers]

get_session_metrics_handler(ss, ts, session_id, prices) ==
    IF get_session(ss, session_id) = None
    THEN [response |-> Response(404, "Session not found"),
          sessions |-> ss, trades |-> ts]
    ELSE LET r == update_unrealized_pnl(ts, session_id, prices)
         IN  [response |-> IF r.raised
                           THEN Response(500, "Internal Server Error")
                           ELSE Response(200, ""),
              sessions |-> ss, trades |-> r.trades]

get_session_metrics(session_id, prices) ==
    /\ LET r == get_session_metrics_handler(sessions, trades, session_id,
                                            prices)
       IN  /\ sessions' = r.sessions
           /\ trades' = r.trades
    /\ UNCHANGED <<pc, loc, now>>

\* ------------------------------------------- calculate_performance_metrics
\* A float of the report is the exact fraction <<numerator, denominator>> in
\* lowest terms with denominator > 0; float('inf') is <<1, 0>>.
Float(n) == <<n, 1>>
Inf == <<1, 0>>

Abs(x) == IF x < 0 THEN -x ELSE x

RECURSIVE Gcd(_, _)
Gcd(a, b) == IF b = 0 THEN a ELSE Gcd(b, a % b)

Norm(f) ==
    LET g == Gcd(Abs(f[1]), Abs(f[2]))
        sgn == IF f[2] < 0 THEN -1 ELSE 1
    IN  <<(sgn * f[1]) \div g, (sgn * f[2]) \div g>>

FAdd(a, b) == Norm(<<a[1] * b[2] + b[1] * a[2], a[2] * b[2]>>)
FSub(a, b) == Norm(<<a[1] * b[2] - b[1] * a[2], a[2] * b[2]>>)
FMul(a, b) == Norm(<<a[1] * b[1], a[2] * b[2]>>)
FDiv(a, b) == Norm(<<a[1] * b[2], a[2] * b[1]>>)
FLess(a, b) == a[1] * b[2] < b[1] * a[2]
FMax(a, b) == IF FLess(a, b) THEN b ELSE a
FMin(a, b) == IF FLess(b, a) THEN b ELSE a

\* sum(), max() and min() over a list of floats
RECURSIVE FSum(_, _)
FSum(xs, k) == IF k > Len(xs) THEN Float(0) ELSE FAdd(xs[k], FSum(xs, k + 1))

RECURSIVE FMaxOf(_, _)
FMaxOf(xs, k) ==
    IF k = Len(xs) THEN xs[k] ELSE FMax(xs[k], FMaxOf(xs, k + 1))

RECURSIVE FMinOf(_, _)
FMinOf(xs, k) ==
    IF k = Len(xs) THEN xs[k] ELSE FMin(xs[k], FMinOf(xs, k + 1))

\* np.cumsum
RECURSIVE cumsum(_, _, _)
cumsum(xs, k, acc) ==
    IF k > Len(xs) THEN <<>>
    ELSE <<FAdd(acc, xs[k])>> \o cumsum(xs, k + 1, FAdd(acc, xs[k]))

\* the drawdown loop; peak starts at float('-inf'), here None
RECURSIVE drawdown_loop(_, _, _, _)
drawdown_loop(cumulative_returns, k, peak, max_drawdown) ==
    IF k > Len(cumulative_returns) THEN max_drawdown
    ELSE LET ret == cumulative_returns[k]
             new_peak == IF peak = None \/ FLess(peak[1], ret)
                         THEN ret ELSE peak[1]
             drawdown == IF FLess(Float(0), new_peak)
                         THEN FDiv(FSub(new_peak, ret), new_peak)
                         ELSE Float(0)
         IN  drawdown_loop(cumulative_returns, k + 1, Some(new_peak),
                           FMax(max_drawdown, drawdown))

\* the loop of the consecutive trades, with its signed current_streak
RECURSIVE streak_loop(_, _, _, _, _)
streak_loop(pnls, k, current_streak, consecutive_wins, consecutive_losses) ==
    IF k > Len(pnls)
    THEN [consecutive_wins |-> consecutive_wins,
          consecutive_losses |-> consecutive_losses]
    ELSE LET streak ==
                IF FLess(Float(0), pnls[k])
                THEN (IF current_streak > 0 THEN current_streak + 1 ELSE 1)
                ELSE (IF current_streak < 0 THEN current_streak - 1 ELSE -1)
             wins == IF streak > 0 THEN streak ELSE 0
             losses == IF streak < 0 THEN -streak ELSE 0
         IN  streak_loop(pnls, k + 1, streak,
                IF wins > consecutive_wins THEN wins ELSE consecutive_wins,
                IF losses > consecutive_losses THEN losses
                ELSE consecutive_losses)

\* np.mean(returns) / np.std(returns) * np.sqrt(365), kept as sign(x)*x*x,
\* which is rational and determines x; 0 when np.std(returns) is 0
sharpe(returns) ==
    LET n == Float(Len(returns))
        mean == FDiv(FSum(returns, 1), n)
        squares == [k \in 1..Len(returns) |-> FMul(returns[k], returns[k])]
        variance == FSub(FDiv(FSum(squares, 1), n), FMul(mean, mean))
    IN  IF variance = Float(0) THEN Float(0)
        ELSE FMul(Float(IF mean[1] < 0 THEN -365 ELSE 365),
                  FDiv(FMul(mean, mean), variance))

\* the two ratios; the first is computed only when its divisor is not 0
profit_factor_zero_without_losers(win_sizes, loss_sizes) ==
    IF loss_sizes # <<>>
    THEN FDiv(FSum(win_sizes, 1), FSum(loss_sizes, 1)) ELSE Float(0)

profit_factor(win_sizes, loss_sizes) ==
    IF loss_sizes # <<>>
    THEN FDiv(FSum(win_sizes, 1), FSum(loss_sizes, 1)) ELSE Inf

risk_reward(avg_win, avg_loss) ==
    IF avg_loss # Float(0) THEN FDiv(avg_win, avg_loss) ELSE Inf

NoTrades_unit_win_rate ==
    [total_trades |-> 0, winning_trades |-> 0, losing_trades |-> 0,
     win_rate |-> Float(1), total_pnl |-> Float(0),
     total_roi_percentage |-> Float(0), sharpe_ratio |-> Float(0),
     max_drawdown |-> Float(0), avg_trade_duration |-> Float(0),
     best_trade_roi |-> Float(0), worst_trade_roi |-> Float(0),
     current_drawdown |-> Float(0), risk_reward_ratio |-> Float(0),
     profit_factor |-> Float(0), avg_win_size |-> Float(0),
     avg_loss_size |-> Float(0), largest_win |-> Float(0),
     largest_loss |-> Float(0), consecutive_wins |-> 0,
     consecutive_losses |-> 0, recovery_factor |-> Float(0)]

\* the report when no trade is counted
NoTrades ==
    [total_trades |-> 0, winning_trades |-> 0, losing_trades |-> 0,
     win_rate |-> Float(0), total_pnl |-> Float(0),
     total_roi_percentage |-> Float(0), sharpe_ratio |-> Float(0),
     max_drawdown |-> Float(0), avg_trade_duration |-> Float(0),
     best_trade_roi |-> Float(0), worst_trade_roi |-> Float(0),
     current_drawdown |-> Float(0), risk_reward_ratio |-> Float(0),
     profit_factor |-> Float(0), avg_win_size |-> Float(0),
     avg_loss_size |-> Float(0), largest_win |-> Float(0),
     largest_loss |-> Float(0), consecutive_wins |-> 0,
     consecutive_losses |-> 0, recovery_factor |-> Float(0)]

\* the orders in which query.all(), which has no ORDER BY, can return the
\* rows of the table: order[k] is the id of the k-th row returned
Orders(ts) == Permutations(1..Len(ts))

\* the rows of the query, in the order returned
query_trades(ts, session_id, start_date, end_date, order) ==
    SelectSeq(order,
        LAMBDA i :
            /\ ts[i].session_id = session_id
            /\ start_date = None \/ ts[i].entry_time >= start_date[1]
            /\ end_date = None \/ ts[i].entry_time <= end_date[1])

\* the report, or the exception raised: sum(win_sizes) / sum(loss_sizes)
\* divides by zero when there are losers and each has realized_pnl 0
calculate_performance_metrics(ts, session_id, start_date, end_date, order) ==
    LET all == query_trades(ts, session_id, start_date, end_date, order)
        closed_trades == SelectSeq(all, LAMBDA i : ts[i].status = CLOSED)
        pnls == [k \in 1..Len(closed_trades) |->
                    Float(ts[closed_trades[k]].realized_pnl[1])]
        winning_trades == SelectSeq(pnls, LAMBDA x : FLess(Float(0), x))
        losing_trades == SelectSeq(pnls, LAMBDA x : ~FLess(Float(0), x))
        total_pnl == FSum(pnls, 1)
        win_rate == FDiv(Float(Len(winning_trades)),
                         Float(Len(closed_trades)))
        rois == [k \in 1..Len(closed_trades) |->
                    Norm(ts[closed_trades[k]].roi_percentage)]
        durations == [k \in 1..Len(closed_trades) |->
                        Float(ts[closed_trades[k]].exit_time[1]
                              - ts[closed_trades[k]].entry_time)]
        win_sizes == winning_trades
        loss_sizes == [k \in 1..Len(losing_trades) |->
                        <<Abs(losing_trades[k][1]), losing_trades[k][2]>>]
        avg_win == IF win_sizes # <<>>
                   THEN FDiv(FSum(win_sizes, 1), Float(Len(win_sizes)))
                   ELSE Float(0)
        avg_loss == IF loss_sizes # <<>>
                    THEN FDiv(FSum(loss_sizes, 1), Float(Len(loss_sizes)))
                    ELSE Float(0)
        max_drawdown == drawdown_loop(cumsum(pnls, 1, Float(0)), 1, None,
                                      Float(0))
        streaks == streak_loop(pnls, 1, 0, 0, 0)
        returns == [k \in 1..Len(rois) |-> FDiv(rois[k], Float(100))]
    IN  IF closed_trades = <<>>
        THEN [error |-> "", metrics |-> Some(NoTrades)]
        ELSE IF loss_sizes # <<>> /\ FSum(loss_sizes, 1) = Float(0)
        THEN [error |-> "ZeroDivisionError", metrics |-> None]
        ELSE [error |-> "",
              metrics |-> Some(
                [total_trades |-> Len(closed_trades),
                 winning_trades |-> Len(winning_trades),
                 losing_trades |-> Len(losing_trades),
                 win_rate |-> FMul(win_rate, Float(100)),
                 total_pnl |-> total_pnl,
                 total_roi_percentage |-> FSum(rois, 1),
                 sharpe_ratio |-> IF Len(returns) > 1 THEN sharpe(returns)
                                  ELSE Float(0),
                 max_drawdown |-> FMul(max_drawdown, Float(100)),
                 avg_trade_duration |->
                    FDiv(FSum(durations, 1), Float(Len(durations))),
                 best_trade_roi |-> FMaxOf(rois, 1),
                 worst_trade_roi |-> FMinOf(rois, 1),
                 current_drawdown |-> FMul(max_drawdown, Float(100)),
                 risk_reward_ratio |-> risk_reward(avg_win, avg_loss),
                 profit_factor |-> profit_factor(win_sizes, loss_sizes),
                 avg_win_size |-> avg_win,
                 avg_loss_size |-> avg_loss,
                 largest_win |-> IF win_sizes # <<>>
                                 THEN FMaxOf(win_sizes, 1) ELSE Float(0),
                 largest_loss |-> IF loss_sizes # <<>>
                                  THEN FMaxOf(loss_sizes, 1) ELSE Float(0),
                 consecutive_wins |-> streaks.consecutive_wins,
                 consecutive_losses |-> streaks.consecutive_losses,
                 recovery_factor |->
                    IF FLess(Float(0), max_drawdown)
                    THEN FDiv(total_pnl, max_drawdown) ELSE Inf])]

\* The session_id of the path decides the answer only: create_trade with a
\* path that names another session than the body is answered before the
\* service is called, and close_trade compares it after the close. The
\* steps of all paths are those of the paths taken here. A session created
\* with no trading pair admits no trade and its row never changes, so the
\* steps create the sessions that can trade.
TradableSessionCreates == {data \in SessionCreates : data.trading_pairs # {}}

Next ==
    \/ \E data \in TradableSessionCreates : create_session(data)
    \/ \E req \in TradeCreates : create_trade(req.session_id, req)
    \/ \E trade_id \in TradeIds, exit_price \in ExitPrices :
            close_trade(1, trade_id, exit_price)
    \/ \E session_id \in SessionIds :
         \E prices \in Lookups(trades, session_id) :
            get_session_metrics(session_id, prices)

Spec == Init /\ [][Next]_vars

\* ------------------------------------------------ the report over histories
\* The report is a function of the rows it reads. Its specification starts
\* from the stores that a history of requests leaves: one session, and per
\* step of the history a BUY of one unit at 200 that is left OPEN or closed
\* at 300, 150, 80 or 200 (realized_pnl 100, -50, -120, 0). The k-th step
\* runs at the clock reading k and its close at k + 1.
MaxHistory == 4

HistorySession ==
    [name |-> "session",
     strategy_config |-> [type |-> "momentum", parameters |-> <<>>],
     trading_pairs |-> {"BTCUSDT"}, risk_percentage |-> 100,
     initial_balance |-> 1000, max_position_size |-> 200]

HistoryRequest ==
    [session_id |-> 1, symbol |-> "BTCUSDT", entry_price |-> 200,
     quantity |-> 1, side |-> BUY, stop_loss |-> None, take_profit |-> None]

HistoryExits == {None, Some(300), Some(150), Some(80), Some(200)}

Histories == UNION {[1..n -> HistoryExits] : n \in 0..MaxHistory}

\* the store after the first k steps of the history
RECURSIVE replay(_, _)
replay(history, k) ==
    IF k = 0
    THEN [sessions |-> create_session_service(<<>>, HistorySession),
          trades |-> <<>>]
    ELSE LET before == replay(history, k - 1)
             opened == create_trade_service(before.sessions, before.trades,
                                            HistoryRequest)
             entered == [opened.trades EXCEPT ![k].entry_time = k]
             closed == close_trade_service(opened.sessions, entered, k,
                                           history[k][1])
         IN  IF history[k] = None
             THEN [sessions |-> opened.sessions, trades |-> entered]
             ELSE [sessions |-> closed.sessions,
                   trades |-> [closed.trades EXCEPT
                                ![k].exit_time = Some(k + 1)]]

InitMetrics ==
    \E history \in Histories :
        /\ now = Len(history) + 1
        /\ LET r == replay(history, Len(history))
           IN  /\ sessions = r.sessions
               /\ trades = r.trades
        /\ pc = [p \in Workers |-> "idle"]
        /\ loc = [p \in Workers |-> Idle]

\* the request that computes the report: it refreshes the OPEN trades first
NextMetrics ==
    \E session_id \in SessionIds :
        \E prices \in Lookups(trades, session_id) :
            get_session_metrics(session_id, prices)

SpecMetrics == InitMetrics /\ [][NextMetrics]_vars

\* ------------------------------------------------- concurrent handlers
\* Each request runs on its own database session. A handler reads rows into
\* its session, computes on the loaded objects, and its commit flushes one
\* UPDATE per changed object that sets the attributes whose value differs
\* from the loaded one. No row is locked between the read and the commit,
\* so the steps of two handlers interleave at the statements.
goto(p, label, local) ==
    /\ pc' = [pc EXCEPT ![p] = label]
    /\ loc' = [loc EXCEPT ![p] = local]
    /\ UNCHANGED now

\* the row after the flush of an object loaded as `read` and changed to `new`
flush(row, read, new) ==
    [f \in DOMAIN row |-> IF new[f] # read[f] THEN new[f] ELSE row[f]]

PendingCreates == Cardinality({q \in Workers : pc[q] = "create_trade_commit"})

\* create_trade up to its commit: the session is read and the checks pass
create_trade_read(p, req) ==
    /\ pc[p] = "idle"
    /\ Len(trades) + PendingCreates < MaxTrades
    /\ create_trade_validate(get_session(sessions, req.session_id), req) = ""
    /\ goto(p, "create_trade_commit",
            [req |-> req, session |-> sessions[req.session_id]])
    /\ UNCHANGED <<sessions, trades>>

\* db.commit(): INSERT of the trade, UPDATE of the balance of a BUY, in one
\* transaction; a commit that raises writes neither
create_trade_commit(p) ==
    /\ pc[p] = "create_trade_commit"
    /\ \E committed \in BOOLEAN :
        IF committed
        THEN /\ trades' = Append(trades, PaperTrade(loc[p].req))
             /\ sessions' = create_trade_flush_session(
                                sessions, loc[p].session, loc[p].req)
        ELSE UNCHANGED <<sessions, trades>>
    /\ goto(p, "idle", Idle)

\* close_trade up to the computation of the P&L: the trade is read OPEN
close_trade_read(p, trade_id, exit_price) ==
    /\ pc[p] = "idle"
    /\ close_trade_found(trades, trade_id)
    /\ goto(p, "close_trade_session",
            [trade_id |-> trade_id, exit_price |-> exit_price,
             trade |-> trades[trade_id]])
    /\ UNCHANGED <<sessions, trades>>

\* trade.session: the session row is loaded on first access
close_trade_session(p) ==
    /\ pc[p] = "close_trade_session"
    /\ goto(p, "close_trade_commit",
            [trade_id |-> loc[p].trade_id, exit_price |-> loc[p].exit_price,
             trade |-> loc[p].trade,
             session |-> sessions[loc[p].trade.session_id]])
    /\ UNCHANGED <<sessions, trades>>

\* db.commit(): UPDATE of the trade, UPDATE of the session
close_trade_commit(p) ==
    /\ pc[p] = "close_trade_commit"
    /\ LET old == loc[p].trade
           new == closed_trade(old, loc[p].exit_price)
           sid == old.session_id
           read == loc[p].session
           session ==
             [read EXCEPT
                !.current_balance =
                    @ + close_credit(old.side,
                                     old.quantity * loc[p].exit_price,
                                     old.quantity * old.entry_price),
                !.total_pnl = @ + new.realized_pnl[1]]
       IN  /\ trades' = [trades EXCEPT
                ![loc[p].trade_id] = flush(@, old, new)]
           /\ sessions' = [sessions EXCEPT ![sid] = flush(@, read, session)]
    /\ goto(p, "idle", Idle)

\* update_unrealized_pnl up to its loop: the OPEN trades are read. With no
\* OPEN trade the loop and the commit do nothing.
update_unrealized_pnl_read(p, session_id) ==
    /\ pc[p] = "idle"
    /\ get_session(sessions, session_id) # None
    /\ open_trades(trades, session_id) # <<>>
    /\ goto(p, "update_unrealized_pnl_commit",
            [ids |-> open_trades(trades, session_id),
             rows |-> [k \in 1..Len(open_trades(trades, session_id)) |->
                        trades[open_trades(trades, session_id)[k]]]])
    /\ UNCHANGED <<sessions, trades>>

\* the loop over the loaded trades and db.commit(): one UPDATE per trade,
\* none when a lookup raised
update_unrealized_pnl_commit(p, prices) ==
    /\ pc[p] = "update_unrealized_pnl_commit"
    /\ LET ids == loc[p].ids
           r == update_loop(loc[p].rows, [k \in 1..Len(ids) |-> k], 1, prices)
       IN  trades' =
             IF r.raised THEN trades
             ELSE [i \in DOMAIN trades |->
                    IF \E k \in 1..Len(ids) : ids[k] = i
                    THEN LET k == CHOOSE k \in 1..Len(ids) : ids[k] = i
                         IN  flush(trades[i], loc[p].rows[k], r.trades[k])
                    ELSE trades[i]]
    /\ goto(p, "idle", Idle)
    /\ UNCHANGED sessions

NextConcurrent ==
    \/ \E data \in TradableSessionCreates : create_session(data)
    \/ \E p \in Workers, req \in TradeCreates : create_trade_read(p, req)
    \/ \E p \in Workers : create_trade_commit(p)
    \/ \E p \in Workers, trade_id \in TradeIds, exit_price \in ExitPrices :
            close_trade_read(p, trade_id, exit_price)
    \/ \E p \in Workers : close_trade_session(p)
    \/ \E p \in Workers : close_trade_commit(p)
    \/ \E p \in Workers, session_id \in SessionIds :
            update_unrealized_pnl_read(p, session_id)
    \/ \E p \in Workers :
         /\ pc[p] = "update_unrealized_pnl_commit"
         /\ \E prices \in [1..Len(loc[p].ids) -> OracleAnswers] :
                update_unrealized_pnl_commit(p, prices)

SpecConcurrent == Init /\ [][NextConcurrent]_vars

\* ------------------------------------------------------------ the ledger
\* the notional, at the entry price, of the OPEN BUY trades of a session
RECURSIVE OpenBuyNotionalFrom(_, _, _)
OpenBuyNotionalFrom(ts, i, session_id) ==
    IF i > Len(ts) THEN 0
    ELSE (IF ts[i].session_id = session_id /\ ts[i].status = OPEN
             /\ ts[i].side = BUY
          THEN trade_value(ts[i].entry_price, ts[i].quantity) ELSE 0)
         + OpenBuyNotionalFrom(ts, i + 1, session_id)

OpenBuyNotional(ts, session_id) == OpenBuyNotionalFrom(ts, 1, session_id)

\* the realized P&L of the CLOSED trades of a session
RECURSIVE RealizedPnlFrom(_, _, _)
RealizedPnlFrom(ts, i, session_id) ==
    IF i > Len(ts) THEN 0
    ELSE (IF ts[i].session_id = session_id /\ ts[i].status = CLOSED
          THEN ts[i].realized_pnl[1] ELSE 0)
         + RealizedPnlFrom(ts, i + 1, session_id)

RealizedPnl(ts, session_id) == RealizedPnlFrom(ts, 1, session_id)

\* C1: balance conservation. In every state of the one-at-a-time ledger,
\* for every session, current_balance plus the entry notional of its OPEN
\* BUY trades equals initial_balance plus the realized P&L of its CLOSED
\* trades (BUY and SELL trades both allowed).
C1_BalanceConservation ==
    \A sid \in DOMAIN sessions :
        sessions[sid].current_balance + OpenBuyNotional(trades, sid)
            = sessions[sid].initial_balance + RealizedPnl(trades, sid)

\* the notional of all the BUY trades admitted to a session
RECURSIVE BuyNotionalFrom(_, _, _)
BuyNotionalFrom(ts, i, session_id) ==
    IF i > Len(ts) THEN 0
    ELSE (IF ts[i].session_id = session_id /\ ts[i].side = BUY
          THEN trade_value(ts[i].entry_price, ts[i].quantity) ELSE 0)
         + BuyNotionalFrom(ts, i + 1, session_id)

\* C2: concurrent BUY admissions to one session are serialized, so that no
\* two pass the balance check against the same stale balance: as long as no
\* trade of a session has been closed, the notionals of the BUY trades
\* admitted to it sum to at most the balance it started with, whatever the
\* interleaving of the requests.
C2_ConcurrentAdmissionsSerialized ==
    \A sid \in DOMAIN sessions :
        (\A i \in DOMAIN trades :
            trades[i].session_id = sid => trades[i].status = OPEN)
        => BuyNotionalFrom(trades, 1, sid) <= sessions[sid].initial_balance

\* C3: close is single-fire. Once a close of a trade has succeeded (the
\* trade is CLOSED), a second close_trade of the same id fails with
\* InvalidStateError, an error other than the NotFoundError of a missing
\* trade, and changes neither the trade nor the session.
C3_CloseIsSingleFire ==
    \A tid \in DOMAIN trades :
        trades[tid].status = CLOSED =>
            \A sid \in SessionIds, p \in ExitPrices :
                LET second == close_trade_handler(sessions, trades, sid, tid, p)
                    missing == close_trade_handler(sessions, trades, sid,
                                                   Len(trades) + 1, p)
                IN  /\ second.response.code # 200
                    /\ second.response # missing.response
                    /\ second.sessions = sessions
                    /\ second.trades = trades

\* the conditions under which open_trade is to reject a request
OpenRejected(ss, req) ==
    \/ req.session_id \notin DOMAIN ss
    \/ req.symbol \notin ss[req.session_id].trading_pairs
    \/ req.entry_price * req.quantity > ss[req.session_id].max_position_size
    \/ /\ req.side = BUY
       /\ req.entry_price * req.quantity > ss[req.session_id].current_balance

\* C4: a rejected open_trade leaves the state unchanged. In every state and
\* for every request, a request that meets a rejection condition (session
\* absent, symbol outside trading_pairs, notional > max_position_size, BUY
\* with notional > current_balance) is answered with an error, and a request
\* answered with an error creates no trade and changes no session.
C4_RejectedOpenLeavesState ==
    \A req \in TradeCreates :
        LET r == create_trade_handler(sessions, trades, req.session_id, req)
        IN  /\ OpenRejected(sessions, req) => r.response.code # 200
            /\ r.response.code # 200
                => r.sessions = sessions /\ r.trades = trades

C4_Witness ==
    \E req \in TradeCreates :
        /\ req.session_id \in DOMAIN sessions
        /\ sessions[req.session_id].current_balance
                < sessions[req.session_id].initial_balance
        /\ create_trade_handler(sessions, trades, req.session_id, req).response
                = Response(400, "Insufficient balance for trade")

\* C5: in every state of the one-at-a-time ledger every session's
\* current_balance is >= 0.
C5_BalanceNonNegative ==
    \A sid \in DOMAIN sessions : sessions[sid].current_balance >= 0

C5_Witness ==
    \E sid \in DOMAIN sessions :
        /\ sessions[sid].current_balance = 0
        /\ \E i \in DOMAIN trades :
                trades[i].session_id = sid /\ trades[i].status = CLOSED
        /\ \E i \in DOMAIN trades :
                trades[i].session_id = sid /\ trades[i].status = OPEN
                    /\ trades[i].side = BUY

\* C6: the status of a trade follows OPEN -> CLOSED or OPEN -> CANCELLED
\* only. Every step keeps the trades it had, creates a trade only as OPEN,
\* and never changes the status of a trade that is CLOSED or CANCELLED.
C6_StatusStateMachine ==
    [][/\ DOMAIN trades \subseteq DOMAIN trades'
       /\ \A i \in DOMAIN trades' \ DOMAIN trades : trades'[i].status = OPEN
       /\ \A i \in DOMAIN trades :
            /\ trades[i].status \in {CLOSED, CANCELLED}
                => trades'[i].status = trades[i].status
            /\ trades[i].status = OPEN
                => trades'[i].status \in TradeStatus]_vars

C6_Witness ==
    \E i, j \in DOMAIN trades :
        /\ trades[i].status = CLOSED
        /\ trades[i].unrealized_pnl # None
        /\ trades[j].status = OPEN
        /\ trades[j].session_id = trades[i].session_id

\* C7: a refresh that started before a close committed never overwrites the
\* trade after the close. Whatever the interleaving, a CLOSED trade carries
\* the roi_percentage computed by the close from its exit_price, and no step
\* changes the unrealized_pnl of a trade that is CLOSED.
C7_RefreshNeverOverwritesClosed ==
    [][\A i \in DOMAIN trades' :
        trades'[i].status = CLOSED =>
            /\ trades'[i].roi_percentage =
                    roi(trades'[i].side,
                        trades'[i].quantity * trades'[i].entry_price,
                        trades'[i].quantity * trades'[i].exit_price[1])
            /\ (i \in DOMAIN trades /\ trades[i].status = CLOSED)
                => trades'[i].unrealized_pnl = trades[i].unrealized_pnl]_vars

\* C8: a Price Oracle failure for one trade does not abort the batch of
\* refresh_unrealized. For every session and all answers of the oracle,
\* each OPEN trade whose lookup succeeds is stored with the unrealized_pnl
\* and roi of the fetched price, and each trade whose lookup fails is left
\* as it was.
C8_OracleFailureDoesNotAbortBatch ==
    \A sid \in DOMAIN sessions : \A prices \in Lookups(trades, sid) :
        LET ids == open_trades(trades, sid)
            r == get_session_metrics_handler(sessions, trades, sid, prices)
        IN  \A k \in 1..Len(ids) :
                r.trades[ids[k]] =
                    IF prices[k] = PriceUnavailable THEN trades[ids[k]]
                    ELSE refreshed_trade(trades[ids[k]], prices[k])

\* the error kind the contract gives to a failing open_trade
OpenErrorKind(ss, req) ==
    IF req.session_id \notin DOMAIN ss THEN "NotFoundError"
    ELSE IF req.symbol \notin ss[req.session_id].trading_pairs
    THEN "ValidationError"
    ELSE IF req.entry_price * req.quantity
                > ss[req.session_id].max_position_size
    THEN "LimitExceededError"
    ELSE IF req.side = BUY /\ req.entry_price * req.quantity
                > ss[req.session_id].current_balance
    THEN "InsufficientBalanceError"
    ELSE "none"

\* the error kind the contract gives to a failing close_trade
CloseErrorKind(ts, trade_id) ==
    IF trade_id \notin DOMAIN ts THEN "NotFoundError"
    ELSE IF ts[trade_id].status # OPEN THEN "InvalidStateError"
    ELSE "none"

\* the failures a state admits: the kind of each, and what the handler answers
ErrorOutcomes ==
    {<<OpenErrorKind(sessions, req),
       create_trade_handler(sessions, trades, req.session_id, req).response>> :
        req \in {q \in TradeCreates : OpenErrorKind(sessions, q) # "none"}}
    \cup
    {<<CloseErrorKind(trades, tid),
       close_trade_handler(sessions, trades, 1, tid, 1).response>> :
        tid \in {t \in TradeIds : CloseErrorKind(trades, t) # "none"}}

\* C9: open_trade and close_trade answer each failure cause with its own
\* error: every failure is answered with an error, and two failures of
\* different kinds (NotFoundError, ValidationError, LimitExceededError,
\* InsufficientBalanceError, InvalidStateError) never get the same answer.
C9_DistinctErrorKinds ==
    \A a, b \in ErrorOutcomes :
        /\ a[2].code # 200
        /\ a[1] # b[1] => a[2] # b[2]

\* C10: BUY vs SELL symmetry. Two CLOSED trades of opposite sides with the
\* same entry_price, exit_price and quantity have realized_pnl values, and
\* roi_percentage values, that are negations of each other.
C10_BuySellSymmetry ==
    \A i, j \in DOMAIN trades :
        (/\ trades[i].status = CLOSED /\ trades[j].status = CLOSED
         /\ trades[i].side = BUY /\ trades[j].side = SELL
         /\ trades[i].entry_price = trades[j].entry_price
         /\ trades[i].exit_price = trades[j].exit_price
         /\ trades[i].quantity = trades[j].quantity)
        => /\ trades[i].realized_pnl[1] = - trades[j].realized_pnl[1]
           /\ trades[i].roi_percentage[1] * trades[j].roi_percentage[2]
                = - trades[j].roi_percentage[1] * trades[i].roi_percentage[2]

C10_Witness ==
    \E i, j \in DOMAIN trades :
        /\ trades[i].status = CLOSED /\ trades[j].status = CLOSED
        /\ trades[i].side = BUY /\ trades[j].side = SELL
        /\ trades[i].entry_price = trades[j].entry_price
        /\ trades[i].exit_price = trades[j].exit_price
        /\ trades[i].quantity = trades[j].quantity
        /\ trades[i].realized_pnl[1] > 0
        /\ trades[i].quantity > 1

\* the constraints the contract puts on the body of create_session
SessionSpecViolated(data) ==
    \/ data.trading_pairs = {}
    \/ ~(data.risk_percentage > 0 /\ data.risk_percentage <= 100)
    \/ data.initial_balance <= 0
    \/ data.max_position_size <= 0

\* C17: create_session rejects, and persists no session for, every body
\* that violates a constraint: empty trading_pairs, risk_percentage outside
\* (0,100], initial_balance <= 0, or max_position_size <= 0.
C17_InvalidSessionRejected ==
    \A data \in SessionCreates :
        SessionSpecViolated(data) =>
            LET r == create_session_handler(sessions, data)
            IN  r.response.code # 201 /\ r.sessions = sessions

\* C18: the session of a successful create_session has current_balance =
\* initial_balance, total_pnl = 0, active = TRUE, owns no trade, carries
\* name, strategy_config, trading_pairs, risk_percentage, initial_balance
\* and max_position_size of the request, and is the one row added.
C18_NewSessionAsRequested ==
    \A data \in SessionCreates :
        LET r == create_session_handler(sessions, data)
        IN  r.response.code = 201 =>
                /\ r.session[1].current_balance = data.initial_balance
                /\ r.session[1].total_pnl = 0
                /\ r.session[1].active = TRUE
                /\ r.session[1].name = data.name
                /\ r.session[1].strategy_config = data.strategy_config
                /\ r.session[1].trading_pairs = data.trading_pairs
                /\ r.session[1].risk_percentage = data.risk_percentage
                /\ r.session[1].initial_balance = data.initial_balance
                /\ r.session[1].max_position_size = data.max_position_size
                /\ r.sessions = Append(sessions, r.session[1])
                /\ \A i \in DOMAIN trades :
                        trades[i].session_id # Len(r.sessions)

\* a session created after the first one has traded, as it was created
C18_Witness ==
    /\ Len(sessions) = 2
    /\ sessions[1].current_balance # sessions[1].initial_balance
    /\ sessions[1].total_pnl # 0
    /\ sessions[2].current_balance = sessions[2].initial_balance
    /\ sessions[2].total_pnl = 0
    /\ \A i \in DOMAIN trades : trades[i].session_id = 1

\* C20: a successful open_trade persists exactly one new trade, OPEN, with
\* session id, symbol, entry_price, quantity and side of the request; it
\* takes entry_price*quantity off current_balance for a BUY and leaves the
\* balance for a SELL, which is admitted whatever the balance is; total_pnl,
\* the other sessions and the other trades stay as they were.
C20_OpenTradeFrame ==
    \A req \in TradeCreates :
        LET r == create_trade_handler(sessions, trades, req.session_id, req)
            sid == req.session_id
            new == r.trades[Len(r.trades)]
        IN  /\ r.response.code = 200 =>
                /\ Len(r.trades) = Len(trades) + 1
                /\ SubSeq(r.trades, 1, Len(trades)) = trades
                /\ new.status = OPEN
                /\ new.session_id = sid /\ new.symbol = req.symbol
                /\ new.entry_price = req.entry_price
                /\ new.quantity = req.quantity /\ new.side = req.side
                /\ r.sessions[sid].current_balance =
                     IF req.side = BUY
                     THEN sessions[sid].current_balance
                            - req.entry_price * req.quantity
                     ELSE sessions[sid].current_balance
                /\ r.sessions = [sessions EXCEPT ![sid].current_balance =
                                    r.sessions[sid].current_balance]
            /\ (/\ req.side = SELL /\ sid \in DOMAIN sessions
                /\ req.symbol \in sessions[sid].trading_pairs
                /\ req.entry_price * req.quantity
                        <= sessions[sid].max_position_size)
                => r.response.code = 200

\* an OPEN SELL stored in a session whose balance is below its notional
C20_Witness ==
    \E i, j \in DOMAIN trades :
        /\ trades[i].side = SELL /\ trades[i].status = OPEN
        /\ trades[j].side = BUY /\ trades[j].status = OPEN
        /\ trades[j].session_id = trades[i].session_id
        /\ trades[i].entry_price * trades[i].quantity
                > sessions[trades[i].session_id].current_balance

\* ----------------------------------------------------- the report, claims
\* the CLOSED trades of a session, and those entered within a window
ClosedOf(ts, session_id) ==
    {i \in DOMAIN ts : ts[i].session_id = session_id /\ ts[i].status = CLOSED}

WindowBounds == {None, Some(2), Some(3)}

ClosedInWindow(ts, session_id, start_date, end_date) ==
    {i \in ClosedOf(ts, session_id) :
        /\ start_date = None \/ ts[i].entry_time >= start_date[1]
        /\ end_date = None \/ ts[i].entry_time <= end_date[1]}

\* the ids of the rows by entry_time, ties by ascending id
ByEntryTime(ts) ==
    CHOOSE order \in Orders(ts) :
        \A j, k \in 1..Len(ts) :
            j < k =>
                \/ ts[order[j]].entry_time < ts[order[k]].entry_time
                \/ /\ ts[order[j]].entry_time = ts[order[k]].entry_time
                   /\ order[j] < order[k]

\* C11: compute_metrics never raises on a non-empty set of closed trades:
\* every division by zero is answered with a sentinel, also when there are
\* losers and each of them has realized_pnl 0.
C11_MetricsNeverRaise ==
    \A sid \in DOMAIN sessions : \A order \in Orders(trades) :
        ClosedOf(trades, sid) # {} =>
            calculate_performance_metrics(trades, sid, None, None,
                                          order).error = ""

\* C12: when every closed trade of the session is a winner, compute_metrics
\* returns normally with profit_factor and risk_reward_ratio both equal to
\* the +infinity sentinel.
C12_AllWinnersSentinel ==
    \A sid \in DOMAIN sessions : \A order \in Orders(trades) :
        (/\ ClosedOf(trades, sid) # {}
         /\ \A i \in ClosedOf(trades, sid) : trades[i].realized_pnl[1] > 0)
        => LET r == calculate_performance_metrics(trades, sid, None, None,
                                                  order)
           IN  /\ r.error = ""
               /\ r.metrics[1].profit_factor = <<1, 0>>
               /\ r.metrics[1].risk_reward_ratio = <<1, 0>>

\* two winners closed and no loser, in a session whose report was requested
C12_Witness ==
    /\ Cardinality(ClosedOf(trades, 1)) >= 2
    /\ \A i \in ClosedOf(trades, 1) : trades[i].realized_pnl[1] > 0
    /\ \E i \in DOMAIN trades :
            trades[i].status = OPEN /\ trades[i].unrealized_pnl # None

ZeroReport ==
    [total_trades |-> 0, winning_trades |-> 0, losing_trades |-> 0,
     win_rate |-> <<0, 1>>, total_pnl |-> <<0, 1>>,
     total_roi_percentage |-> <<0, 1>>, sharpe_ratio |-> <<0, 1>>,
     max_drawdown |-> <<0, 1>>, avg_trade_duration |-> <<0, 1>>,
     best_trade_roi |-> <<0, 1>>, worst_trade_roi |-> <<0, 1>>,
     current_drawdown |-> <<0, 1>>, risk_reward_ratio |-> <<0, 1>>,
     profit_factor |-> <<0, 1>>, avg_win_size |-> <<0, 1>>,
     avg_loss_size |-> <<0, 1>>, largest_win |-> <<0, 1>>,
     largest_loss |-> <<0, 1>>, consecutive_wins |-> 0,
     consecutive_losses |-> 0, recovery_factor |-> <<0, 1>>]

\* C13: when the session has no CLOSED trade in the requested window (no
\* trade at all, OPEN trades only, or none entered inside the window),
\* compute_metrics raises no error and returns the report with every field
\* equal to zero.
C13_EmptyInputAllZero ==
    \A sid \in SessionIds : \A start_date, end_date \in WindowBounds :
        ClosedInWindow(trades, sid, start_date, end_date) = {} =>
            \A order \in Orders(trades) :
                LET r == calculate_performance_metrics(
                            trades, sid, start_date, end_date, order)
                IN  r.error = "" /\ r.metrics[1] = ZeroReport

\* a trade closed before the window and a refreshed OPEN trade inside it
C13_Witness ==
    /\ \E i \in ClosedOf(trades, 1) : trades[i].entry_time < 2
    /\ ClosedInWindow(trades, 1, Some(2), Some(3)) = {}
    /\ \E i \in DOMAIN trades :
            /\ trades[i].status = OPEN /\ trades[i].unrealized_pnl # None
            /\ trades[i].entry_time \in 2..3

\* C14: the drawdown is computed over the closed trades in the order of
\* entry_time, ties by ascending id: max_drawdown and the consecutive
\* win/loss streaks do not depend on the order in which the store returns
\* the rows.
C14_DrawdownOrderIndependent ==
    \A sid \in DOMAIN sessions : \A order \in Orders(trades) :
        LET r == calculate_performance_metrics(trades, sid, None, None,
                                               order)
            e == calculate_performance_metrics(trades, sid, None, None,
                                               ByEntryTime(trades))
        IN  /\ r.error = e.error
            /\ r.error = "" =>
                /\ r.metrics[1].max_drawdown = e.metrics[1].max_drawdown
                /\ r.metrics[1].consecutive_wins
                        = e.metrics[1].consecutive_wins
                /\ r.metrics[1].consecutive_losses
                        = e.metrics[1].consecutive_losses

\* the realized_pnl of the closed trades of a session by entry_time and id
OrderedPnl(ts, session_id) ==
    LET ids == SelectSeq(ByEntryTime(ts),
                         LAMBDA i : i \in ClosedOf(ts, session_id))
    IN  [k \in 1..Len(ids) |-> ts[ids[k]].realized_pnl[1]]

RECURSIVE Cumulative(_, _)
Cumulative(xs, k) == IF k = 0 THEN 0 ELSE xs[k] + Cumulative(xs, k - 1)

Peak(xs, k) ==
    CHOOSE m \in {Cumulative(xs, j) : j \in 1..k} :
        \A j \in 1..k : Cumulative(xs, j) <= m

\* (peak - cumulative) / peak of the prefix of length k, 0 when peak <= 0
PrefixDrawdown(xs, k) ==
    IF Peak(xs, k) > 0
    THEN <<Peak(xs, k) - Cumulative(xs, k), Peak(xs, k)>> ELSE <<0, 1>>

ExpectedMaxDrawdown(xs) ==
    LET worst == CHOOSE k \in 1..Len(xs) :
                    \A j \in 1..Len(xs) :
                        PrefixDrawdown(xs, j)[1] * PrefixDrawdown(xs, k)[2]
                          <= PrefixDrawdown(xs, k)[1] * PrefixDrawdown(xs, j)[2]
        d == PrefixDrawdown(xs, worst)
        g == Gcd(100 * d[1], d[2])
    IN  <<(100 * d[1]) \div g, d[2] \div g>>

\* C15: max_drawdown is 100 times the maximum, over the prefixes of the
\* closed trades ordered by entry_time and id, of (peak - cumulative)/peak,
\* a prefix with peak <= 0 contributing 0; the cumulative sequence
\* [100, 50, 150, 30] gives 80. Stated for the reports that are returned.
C15_MaxDrawdownFormula ==
    \A sid \in DOMAIN sessions : \A order \in Orders(trades) :
        LET r == calculate_performance_metrics(trades, sid, None, None,
                                               order)
        IN  (ClosedOf(trades, sid) # {} /\ r.error = "") =>
                /\ r.metrics[1].max_drawdown
                        = ExpectedMaxDrawdown(OrderedPnl(trades, sid))
                /\ OrderedPnl(trades, sid) = <<100, -50, 100, -120>>
                        => r.metrics[1].max_drawdown = <<80, 1>>

\* C16: for any non-empty set of closed trades the winners are the trades
\* with realized_pnl > 0, the losers those with realized_pnl <= 0,
\* winning_trades + losing_trades = total_trades, and win_rate is
\* winning_trades / total_trades * 100.
C16_WinRatePartition ==
    \A sid \in DOMAIN sessions : \A order \in Orders(trades) :
        ClosedOf(trades, sid) # {} =>
            LET r == calculate_performance_metrics(trades, sid, None, None,
                                                   order)
                winners == Cardinality({i \in ClosedOf(trades, sid) :
                                            trades[i].realized_pnl[1] > 0})
                losers == Cardinality({i \in ClosedOf(trades, sid) :
                                            trades[i].realized_pnl[1] <= 0})
                total == Cardinality(ClosedOf(trades, sid))
            IN  /\ r.error = ""
                /\ r.metrics[1].winning_trades = winners
                /\ r.metrics[1].losing_trades = losers
                /\ r.metrics[1].total_trades = winners + losers
                /\ r.metrics[1].total_trades = total
                /\ r.metrics[1].win_rate[1] * total
                        = 100 * winners * r.metrics[1].win_rate[2]

\* C19: compute_metrics is a pure read: it changes no session and no trade,
\* and two calls on an unchanged store, for the same session and window,
\* return the same record. The report is computed from the rows only, and
\* the store is free in the order of the rows it returns to each call.
C19_MetricsPureRead ==
    \A sid \in SessionIds : \A start_date, end_date \in WindowBounds :
        \A first, second \in Orders(trades) :
            calculate_performance_metrics(trades, sid, start_date, end_date,
                                          first)
            = calculate_performance_metrics(trades, sid, start_date,
                                            end_date, second)

\* C21: a successful close_trade at exit_price closes the trade with, for a
\* BUY, realized_pnl = quantity*exit_price - quantity*entry_price and a
\* credit of quantity*exit_price to the session's current_balance, and for
\* a SELL, realized_pnl = quantity*entry_price - quantity*exit_price and a
\* credit of quantity*entry_price; in both cases roi_percentage is
\* realized_pnl / (quantity*entry_price) * 100.
C21_CloseTradeEffects ==
    \A tid \in DOMAIN trades, p \in ExitPrices :
        trades[tid].status = OPEN =>
            LET t == trades[tid]
                sid == t.session_id
                r == close_trade_handler(sessions, trades, sid, tid, p)
                c == r.trades[tid]
                entry_value == t.quantity * t.entry_price
                exit_value == t.quantity * p
            IN  /\ r.response.code = 200
                /\ c.status = CLOSED
                /\ c.exit_price = Some(p)
                /\ t.side = BUY =>
                    /\ c.realized_pnl = Some(exit_value - entry_value)
                    /\ r.sessions[sid].current_balance
                            = sessions[sid].current_balance + exit_value
                /\ t.side = SELL =>
                    /\ c.realized_pnl = Some(entry_value - exit_value)
                    /\ r.sessions[sid].current_balance
                            = sessions[sid].current_balance + entry_value
                /\ c.roi_percentage[1] * entry_value
                        = c.realized_pnl[1] * 100 * c.roi_percentage[2]
                /\ c.roi_percentage[2] # 0

C21_Witness ==
    \E i, j \in DOMAIN trades :
        /\ trades[i].status = CLOSED /\ trades[i].side = BUY
        /\ trades[i].realized_pnl # Some(0)
        /\ trades[j].status = CLOSED /\ trades[j].side = SELL
        /\ trades[j].realized_pnl # Some(0)
        /\ trades[j].session_id = trades[i].session_id

\* C22: with the operations executed one at a time, in every state reached
\* the total_pnl of each session is the sum of the realized_pnl of its
\* CLOSED trades.
C22_TotalPnlIsSumOfRealized ==
    \A sid \in DOMAIN sessions :
        sessions[sid].total_pnl = RealizedPnl(trades, sid)

C22_Witness ==
    \E sid \in DOMAIN sessions :
        /\ sessions[sid].total_pnl # 0
        /\ \E i, j \in DOMAIN trades :
            /\ trades[i].session_id = sid /\ trades[i].status = CLOSED
            /\ trades[j].session_id = sid /\ trades[j].status = CLOSED
            /\ trades[i].realized_pnl # trades[j].realized_pnl

\* C23: two close_trade calls that run concurrently on the same OPEN trade
\* credit the session at most once, and at most one of them reports
\* success: whatever the interleaving, a close_trade that commits (it then
\* returns the trade, and has credited current_balance and total_pnl)
\* commits on a trade that is OPEN in the store, so that no trade is closed
\* and credited twice.
C23_ConcurrentCloseCreditsOnce ==
    [][\A p \in Workers :
         (pc[p] = "close_trade_commit" /\ pc'[p] = "idle")
            => trades[loc[p].trade_id].status = OPEN]_vars

\* C24: no balance update is lost when an open_trade (BUY) and a close_trade
\* of another trade run concurrently on one session. Whatever the
\* interleaving, the commit of a close_trade of a trade that is OPEN in the
\* store adds its credit to the current_balance as it is stored, so that a
\* debit committed since the close read the session is kept, as in one of
\* the two serial orders.
C24_NoLostBalanceUpdate ==
    [][\A p \in Workers :
         (/\ pc[p] = "close_trade_commit" /\ pc'[p] = "idle"
          /\ trades[loc[p].trade_id].status = OPEN)
            => LET t == trades[loc[p].trade_id]
                   credit == IF t.side = BUY
                             THEN t.quantity * loc[p].exit_price
                             ELSE t.quantity * t.entry_price
               IN  sessions'[t.session_id].current_balance
                        = sessions[t.session_id].current_balance + credit]_vars

\* C25: refresh_unrealized changes only the unrealized_pnl and the
\* roi_percentage of the OPEN trades of its session. For every session id
\* and whatever the oracle answers, the refresh leaves every session as it
\* was (current_balance and total_pnl included), keeps every other field of
\* every trade (status, exit_price and realized_pnl included: no trade is
\* closed, also not when the price fetched crosses its stop_loss or
\* take_profit), and leaves the trades that are CLOSED or CANCELLED or
\* belong to another session untouched.
C25_RefreshFrame ==
    \A sid \in SessionIds :
        \A prices \in Lookups(trades, sid) :
            LET r == get_session_metrics_handler(sessions, trades, sid,
                                                 prices)
            IN  /\ r.sessions = sessions
                /\ DOMAIN r.trades = DOMAIN trades
                /\ \A i \in DOMAIN trades :
                    /\ \A f \in DOMAIN trades[i]
                                \ {"unrealized_pnl", "roi_percentage"} :
                            r.trades[i][f] = trades[i][f]
                    /\ (trades[i].status # OPEN \/ trades[i].session_id # sid)
                            => r.trades[i] = trades[i]

\* a refreshed OPEN BUY whose take_profit the price fetched has reached,
\* next to a CLOSED trade of the same session
C25_Witness ==
    \E i, j \in DOMAIN trades :
        /\ trades[i].status = OPEN /\ trades[i].side = BUY
        /\ trades[i].unrealized_pnl # None
        /\ trades[i].take_profit # None
        /\ \E price \in OracleAnswers \ {PriceUnavailable} :
            /\ price >= trades[i].take_profit[1]
            /\ trades[i].unrealized_pnl
                = Some(trades[i].quantity * price
                       - trades[i].quantity * trades[i].entry_price)
        /\ trades[j].status = CLOSED
        /\ trades[j].session_id = trades[i].session_id

\* C26: exit_price, exit_time and realized_pnl are set only by close. In
\* every state reached a trade is OPEN exactly when its exit_price and its
\* realized_pnl are unset (and then its exit_time is unset too), and no step
\* changes the exit_price, the exit_time or the realized_pnl of a trade that
\* is CLOSED.
C26_ExitFieldsSetOnlyByClose ==
    [][/\ \A i \in DOMAIN trades' :
            /\ trades'[i].status = OPEN
                <=> (trades'[i].exit_price = None
                     /\ trades'[i].realized_pnl = None)
            /\ trades'[i].status = OPEN => trades'[i].exit_time = None
       /\ \A i \in DOMAIN trades :
            trades[i].status = CLOSED =>
                /\ trades'[i].exit_price = trades[i].exit_price
                /\ trades'[i].exit_time = trades[i].exit_time
                /\ trades'[i].realized_pnl = trades[i].realized_pnl]_vars

\* the sum of the realized_pnl of a set of trades
RECURSIVE SumRealized(_, _)
SumRealized(ts, ids) ==
    IF ids = {} THEN 0
    ELSE LET i == CHOOSE i \in ids : TRUE
         IN  ts[i].realized_pnl[1] + SumRealized(ts, ids \ {i})

\* C27: compute_metrics counts exactly the CLOSED trades of the requested
\* session whose entry_time lies in the closed interval [start, end], each
\* bound optional: for every session, window and order of the rows it
\* returns a report whose total_trades is the number of these trades and
\* whose total_pnl is the sum of their realized_pnl; OPEN trades, trades of
\* other sessions and trades entered outside the window contribute nothing.
C27_MetricsCountClosedInWindow ==
    \A sid \in SessionIds : \A start_date, end_date \in WindowBounds :
        \A order \in Orders(trades) :
            LET r == calculate_performance_metrics(trades, sid, start_date,
                                                   end_date, order)
                counted == ClosedInWindow(trades, sid, start_date, end_date)
            IN  /\ r.error = ""
                /\ r.metrics[1].total_trades = Cardinality(counted)
                /\ r.metrics[1].total_pnl
                        = <<SumRealized(trades, counted), 1>>

\* the lengths of the runs of consecutive winners (win = TRUE) or of
\* consecutive losers (win = FALSE) in a sequence of P&L, and the longest
RunLengths(xs, win) ==
    {n \in 0..Len(xs) :
        \E a \in 1..(Len(xs) - n + 1) :
            \A j \in a..(a + n - 1) : (xs[j] > 0) = win}

LongestRun(xs, win) ==
    CHOOSE n \in RunLengths(xs, win) : \A m \in RunLengths(xs, win) : m <= n

\* C28: for every sequence of closed trades, consecutive_wins is the length
\* of the longest run of consecutive trades with realized_pnl > 0 and
\* consecutive_losses the length of the longest run with realized_pnl <= 0,
\* the sequence being the closed trades in the order the report reads them.
C28_LongestStreaks ==
    \A sid \in DOMAIN sessions : \A order \in Orders(trades) :
        ClosedOf(trades, sid) # {} =>
            LET r == calculate_performance_metrics(trades, sid, None, None,
                                                   order)
                ids == SelectSeq(order,
                                 LAMBDA i : i \in ClosedOf(trades, sid))
                xs == [k \in 1..Len(ids) |-> trades[ids[k]].realized_pnl[1]]
            IN  /\ r.error = ""
                /\ r.metrics[1].consecutive_wins = LongestRun(xs, TRUE)
                /\ r.metrics[1].consecutive_losses = LongestRun(xs, FALSE)

\* C29: a close request addressed through session X for an OPEN trade of
\* another session Y is refused without effect: it is not answered as a
\* success, and whenever it is answered 'Trade does not belong to this
\* session' the trade is still OPEN and session Y's current_balance and
\* total_pnl are as before.
C29_ForeignCloseRefused ==
    \A tid \in DOMAIN trades, sid \in DOMAIN sessions, p \in ExitPrices :
        (trades[tid].status = OPEN /\ trades[tid].session_id # sid) =>
            LET r == close_trade_handler(sessions, trades, sid, tid, p)
                owner == trades[tid].session_id
            IN  /\ r.response.code # 200
                /\ r.response.detail = "Trade does not belong to this session"
                    => /\ r.trades[tid].status = OPEN
                       /\ r.sessions[owner].current_balance
                            = sessions[owner].current_balance
                       /\ r.sessions[owner].total_pnl
                            = sessions[owner].total_pnl

\* C30: open_trade commits the new trade and the debit of a BUY as one
\* unit. For every BUY request that passes the checks and so reaches the
\* commit, the store it leaves either holds the new OPEN trade and the
\* session's current_balance reduced by entry_price*quantity, or is the
\* store as it was; the first when the commit succeeds, the second when it
\* fails.
C30_OpenTradeAtomic ==
    \A req \in {q \in TradeCreates :
                    /\ q.side = BUY
                    /\ create_trade_validate(
                            get_session(sessions, q.session_id), q) = ""} :
        \A committed \in BOOLEAN :
            \A r \in {IF committed
                      THEN create_trade_handler(sessions, trades,
                                                req.session_id, req)
                      ELSE create_trade_handler_commit_failed(
                                sessions, trades, req.session_id, req)} :
                LET sid == req.session_id
                    stored == /\ Len(r.trades) = Len(trades) + 1
                              /\ r.trades[Len(r.trades)].status = OPEN
                              /\ r.trades[Len(r.trades)].side = BUY
                              /\ r.trades[Len(r.trades)].session_id = sid
                    debited == r.sessions[sid].current_balance
                                    = sessions[sid].current_balance
                                        - req.entry_price * req.quantity
                IN  /\ stored <=> debited
                    /\ ~stored => (r.trades = trades /\ r.sessions = sessions)
                    /\ committed <=> stored

\* a BUY is stored with its debit, and a further BUY would pass the checks,
\* so that its commit can succeed or fail
C30_Witness ==
    \E i \in DOMAIN trades, req \in TradeCreates :
        /\ trades[i].status = OPEN /\ trades[i].side = BUY
        /\ sessions[trades[i].session_id].current_balance
            = sessions[trades[i].session_id].initial_balance
                - trades[i].entry_price * trades[i].quantity
        /\ req.side = BUY /\ req.session_id = trades[i].session_id
        /\ create_trade_handler(sessions, trades, req.session_id,
                                req).response.code = 200
        /\ create_trade_handler_commit_failed(
                sessions, trades, req.session_id, req).response.code = 500
====
